---- MODULE Spec2Model ----
(***************************************************************************)
(* Duplex-sponge Fiat-Shamir transcript gadget of src/p3/challenger.rs.    *)
(*                                                                         *)
(* The gadget runs at circuit-construction time: the three buffers of a    *)
(* DuplexChallengerTarget hold wires (Targets), not numbers.  A wire is a  *)
(* record naming where it comes from:                                      *)
(*    kind "init"  wire idx of the state allocated by from_builder,        *)
(*    kind "in"    a wire handed to observe by the caller,                 *)
(*    kind "perm"  output idx of the gen-th permutation the builder        *)
(*                 emitted,                                                *)
(* and deps, the caller wires it is computed from.  The 64-bit arithmetic  *)
(* of sample_bits is modelled on bit vectors (index 1 is the least         *)
(* significant bit) for the value a wire takes at proving time.            *)
(***************************************************************************)
EXTENDS Integers, Sequences, FiniteSets, TLC

VARIABLES sponge_state, input_buffer, output_buffer, nperm, perm_in, panic,
          steps, call, prev, hist, seen, twin

vars == <<sponge_state, input_buffer, output_buffer, nperm, perm_in, panic,
          steps, call, prev, hist, seen, twin>>

(***************************************************************************)
(* Bounds of the model.                                                    *)
(***************************************************************************)
\* Width of the sponge (crate::p3::constants::WIDTH, scaled down).
WIDTH == 3
\* The builder emits at most this many permutations.
MaxPerm == 2
\* Caller wires that may be observed.
Inputs == {1, 2}
\* Longest sequence handed to observe, largest SIZE of sample_arr.
MaxObserve == WIDTH + 1
MaxArr == WIDTH + 1
\* Extension degrees E of sample_ext.
ExtDegrees == {2}

(***************************************************************************)
(* Program constants.                                                      *)
(***************************************************************************)
\* split_low_high(rand_f, 32, 64): limb width and number of bits split.
LIMB_BITS == 32
NUM_BITS == 64

(***************************************************************************)
(* Field elements at proving time: canonical values below 2^64 as vectors  *)
(* of NUM_BITS bits.  The field is the 64-bit field of order               *)
(* 2^64 - 2^32 + 1.                                                        *)
(***************************************************************************)
Zero64 == [i \in 1..NUM_BITS |-> 0]

One64 == [i \in 1..NUM_BITS |-> IF i = 1 THEN 1 ELSE 0]

\* 2^32 - 1, the low limb all ones.
Epsilon64 == [i \in 1..NUM_BITS |-> IF i <= LIMB_BITS THEN 1 ELSE 0]

\* The field order minus one, the largest canonical value.
OrderMinusOne64 == [i \in 1..NUM_BITS |-> IF i <= LIMB_BITS THEN 0 ELSE 1]

\* A canonical value is at most the field order minus one, 2^64 - 2^32: its
\* high limb is not all ones, or its low limb is zero.
IsCanonical(a) ==
    \/ \E i \in (LIMB_BITS + 1)..NUM_BITS : a[i] = 0
    \/ \A i \in 1..LIMB_BITS : a[i] = 0

\* The lowest set bit of a non-zero value.
LowestOne(a) == CHOOSE i \in 1..Len(a) : a[i] = 1 /\ \A j \in 1..(i - 1) : a[j] = 0

\* CircuitBuilder::sub(a, one): a - 1 in the field. Below the lowest set bit
\* the borrow turns every 0 into 1, the lowest set bit becomes 0 and the bits
\* above it stay; 0 - 1 is the field order minus one.
sub_one(a) ==
    IF a = Zero64 THEN OrderMinusOne64
    ELSE LET low == LowestOne(a)
         IN [i \in 1..Len(a) |-> IF i < low THEN 1 ELSE IF i = low THEN 0 ELSE a[i]]

\* (0x1usize << bits) as u64, for bits below the width of usize.
ShlOne(bits) == [i \in 1..NUM_BITS |-> IF i = bits + 1 THEN 1 ELSE 0]

\* p3_constant: the field constant of a value below the field order.
p3_constant(v) == v

\* split_low_high(x, 32, 64): the low LIMB_BITS bits and the bits above.
split_low_high(v) ==
    [low |-> SubSeq(v, 1, LIMB_BITS), high |-> SubSeq(v, LIMB_BITS + 1, NUM_BITS)]

\* Bitwise AND of two 32-bit limbs.
and_u32(a, b) == [i \in 1..Len(a) |-> IF a[i] = 1 /\ b[i] = 1 THEN 1 ELSE 0]

\* and_u64 on [low, high] limb pairs: each limb pair on its own.
and_u64(a, b) ==
    [low |-> and_u32(a.low, b.low), high |-> and_u32(a.high, b.high)]

\* mul_const_add(2^32, high, low): high * 2^32 + low in the field. A sum of
\* at least the field order has an all-ones high limb and a low limb of at
\* least 1, and reduces to low - 1.
mul_const_add_2_32(high, low) ==
    LET v == low \o high
    IN IF IsCanonical(v) THEN v
       ELSE LET l == LowestOne(low)
            IN [i \in 1..NUM_BITS |->
                  IF i < l THEN 1 ELSE IF i = l \/ i > LIMB_BITS THEN 0 ELSE low[i]]

\* sample_bits_value without the subtraction of line 151: the mask is 1 << bits.
sample_bits_value_nosub(rand_f, bits) ==
    LET r == split_low_high(rand_f)
        power_of_bits == p3_constant(ShlOne(bits))
        mask == split_low_high(power_of_bits)
        lh == and_u64(r, mask)
    IN mul_const_add_2_32(lh.high, lh.low)

\* sample_bits_value keeping the low limb only: the high limb of the result
\* is dropped.
sample_bits_value_low(rand_f, bits) ==
    LET r == split_low_high(rand_f)
        power_of_bits == p3_constant(ShlOne(bits))
        power_of_bits_minus_one == sub_one(power_of_bits)
        mask == split_low_high(power_of_bits_minus_one)
        lh == and_u64(r, mask)
    IN mul_const_add_2_32(split_low_high(Zero64).high, lh.low)

\* Lines 148-163 of p3_sample_bits on the value rand_f takes: split it and
\* the mask (1 << bits) - 1 into limbs, AND limb by limb, recombine.
sample_bits_value(rand_f, bits) ==
    LET r == split_low_high(rand_f)
        power_of_bits == p3_constant(ShlOne(bits))
        power_of_bits_minus_one == sub_one(power_of_bits)
        mask == split_low_high(power_of_bits_minus_one)
        lh == and_u64(r, mask)
    IN mul_const_add_2_32(lh.high, lh.low)

(***************************************************************************)
(* Wires.                                                                  *)
(***************************************************************************)
InitWire(i) == [kind |-> "init", gen |-> 0, idx |-> i, deps |-> {}]

InWire(v) == [kind |-> "in", gen |-> 0, idx |-> v, deps |-> {v}]

PermWire(n, i, d) == [kind |-> "perm", gen |-> n, idx |-> i, deps |-> d]

\* cb.p3_arr::<WIDTH>(): the WIDTH wires of the initial state.
p3_arr == [i \in 1..WIDTH |-> InitWire(i)]

\* Poseidon2Target::permute_mut, the n-th permutation of the circuit: every
\* output wire is new and is computed from every input wire.
permute_mut(state, n) ==
    LET d == UNION {state[j].deps : j \in 1..Len(state)}
    IN [i \in 1..Len(state) |-> PermWire(n, i, d)]

(***************************************************************************)
(* The machine an operation runs on: the DuplexChallengerTarget x, what    *)
(* the builder has emitted (nperm permutations, the last one on perm_in),  *)
(* whether construction has aborted, and the history of the operation:     *)
(* steps, the states x went through, and out, the wires sample returned.   *)
(* hist is the shape of the calls so far: obs observed values followed by  *)
(* samp samples, or mixed once a value is observed after a sample; seen    *)
(* is the set of caller wires observed so far.  twin is the machine of a    *)
(* second transcript, made by from_builder on a builder of its own and     *)
(* driven by the same calls with the same arguments.                       *)
(***************************************************************************)
Observed(h) ==
    IF h.mixed \/ h.samp > 0 THEN [obs |-> 0, samp |-> 0, mixed |-> TRUE]
    ELSE [h EXCEPT !.obs = @ + 1]

Sampled(h) == IF h.mixed THEN h ELSE [h EXCEPT !.samp = @ + 1]

Snapshot(m, at) ==
    [at |-> at, sponge_state |-> m.sponge_state,
     input_buffer |-> m.input_buffer, output_buffer |-> m.output_buffer]

At(m, at) == [m EXCEPT !.steps = Append(@, Snapshot(m, at))]

\* Absorb with the overwrite of lines 72-74 left out: the inputs are drained
\* and dropped.
AbsorbNone(state, inputs) == state

\* Absorb with the slots the inputs do not reach reset to the initial wires.
AbsorbReset(state, inputs) ==
    [i \in 1..Len(state) |-> IF i <= Len(inputs) THEN inputs[i] ELSE p3_arr[i]]

\* Lines 72-74: the drained inputs overwrite the first slots of the state.
Absorb(state, inputs) ==
    [i \in 1..Len(state) |-> IF i <= Len(inputs) THEN inputs[i] ELSE state[i]]

\* p3_duplexing without the extend of line 97: the output buffer stays empty.
p3_duplexing_norefill(m) ==
    IF m.panic # "none" THEN m
    ELSE IF ~(Len(m.input_buffer) <= WIDTH)
    THEN [m EXCEPT !.panic = "assert"]
    ELSE
      LET m1 == At([m EXCEPT !.sponge_state = Absorb(@, m.input_buffer),
                             !.input_buffer = <<>>], "drain")
          m2 == At([m1 EXCEPT !.sponge_state = permute_mut(@, m1.nperm + 1),
                              !.nperm = @ + 1,
                              !.perm_in = m1.sponge_state], "permute")
          m3 == At([m2 EXCEPT !.output_buffer = <<>>], "clear")
      IN At(m3, "duplex_ret")

\* p3_duplexing reading the input buffer without draining it.
p3_duplexing_nodrain(m) ==
    IF m.panic # "none" THEN m
    ELSE IF ~(Len(m.input_buffer) <= WIDTH)
    THEN [m EXCEPT !.panic = "assert"]
    ELSE
      LET m1 == At([m EXCEPT !.sponge_state = Absorb(@, m.input_buffer)],
                   "drain")
          m2 == At([m1 EXCEPT !.sponge_state = permute_mut(@, m1.nperm + 1),
                              !.nperm = @ + 1,
                              !.perm_in = m1.sponge_state], "permute")
          m3 == At([m2 EXCEPT !.output_buffer = <<>>], "clear")
          m4 == At([m3 EXCEPT !.output_buffer = @ \o m3.sponge_state],
                   "duplex_ret")
      IN m4

\* p3_duplexing with the output buffer refilled before the permutation runs:
\* it holds the state that went into the permutation.
p3_duplexing_stale(m) ==
    IF m.panic # "none" THEN m
    ELSE IF ~(Len(m.input_buffer) <= WIDTH)
    THEN [m EXCEPT !.panic = "assert"]
    ELSE
      LET m1 == At([m EXCEPT !.sponge_state = Absorb(@, m.input_buffer),
                             !.input_buffer = <<>>], "drain")
          m2 == At([m1 EXCEPT !.output_buffer = m1.sponge_state], "clear")
          m3 == At([m2 EXCEPT !.sponge_state = permute_mut(@, m2.nperm + 1),
                              !.nperm = @ + 1,
                              !.perm_in = m2.sponge_state], "duplex_ret")
      IN m3

p3_duplexing(m) ==
    IF m.panic # "none" THEN m
    ELSE IF ~(Len(m.input_buffer) <= WIDTH)
    THEN [m EXCEPT !.panic = "assert"]
    ELSE IF Len(m.input_buffer) > Len(m.sponge_state)
    THEN [m EXCEPT !.panic = "index"]
    ELSE
      LET m1 == At([m EXCEPT !.sponge_state = Absorb(@, m.input_buffer),
                             !.input_buffer = <<>>], "drain")
          m2 == At([m1 EXCEPT !.sponge_state = permute_mut(@, m1.nperm + 1),
                              !.nperm = @ + 1,
                              !.perm_in = m1.sponge_state], "permute")
          m3 == At([m2 EXCEPT !.output_buffer = <<>>], "clear")
          m4 == At([m3 EXCEPT !.output_buffer = @ \o m3.sponge_state],
                   "duplex_ret")
      IN m4

\* p3_observe_single running the duplex after every push.
p3_observe_single_eager(m, value) ==
    IF m.panic # "none" THEN m
    ELSE
      LET m1 == At([m EXCEPT !.output_buffer = <<>>], "clear")
          m2 == At([m1 EXCEPT !.input_buffer = Append(@, value),
                              !.hist = Observed(@),
                              !.seen = @ \cup value.deps], "push")
      IN p3_duplexing(m2)

\* p3_observe_single without the clear of line 105.
p3_observe_single_noclear(m, value) ==
    IF m.panic # "none" THEN m
    ELSE
      LET m2 == At([m EXCEPT !.input_buffer = Append(@, value),
                             !.hist = Observed(@),
                             !.seen = @ \cup value.deps], "push")
      IN IF Len(m2.input_buffer) = WIDTH THEN p3_duplexing(m2) ELSE m2

\* p3_observe_single with the test of line 108 off by one: the duplex runs
\* once the buffer holds more than WIDTH values.
p3_observe_single_late(m, value) ==
    IF m.panic # "none" THEN m
    ELSE
      LET m1 == At([m EXCEPT !.output_buffer = <<>>], "clear")
          m2 == At([m1 EXCEPT !.input_buffer = Append(@, value),
                              !.hist = Observed(@),
                              !.seen = @ \cup value.deps], "push")
      IN IF Len(m2.input_buffer) = WIDTH + 1 THEN p3_duplexing(m2) ELSE m2

p3_observe_single(m, value) ==
    IF m.panic # "none" THEN m
    ELSE
      LET m1 == At([m EXCEPT !.output_buffer = <<>>], "clear")
          m2 == At([m1 EXCEPT !.input_buffer = Append(@, value),
                              !.hist = Observed(@),
                              !.seen = @ \cup value.deps], "push")
      IN IF Len(m2.input_buffer) = WIDTH THEN p3_duplexing(m2) ELSE m2

RECURSIVE p3_observe_rev(_, _)
\* p3_observe going through the values from the last to the first.
p3_observe_rev(m, values) ==
    IF values = <<>> THEN m
    ELSE p3_observe_single(p3_observe_rev(m, Tail(values)), Head(values))

RECURSIVE p3_observe(_, _)
p3_observe(m, values) ==
    IF values = <<>> THEN m
    ELSE p3_observe(p3_observe_single(m, Head(values)), Tail(values))

\* p3_sample taking the first element of the output buffer, not the last.
p3_sample_front(m) ==
    IF m.panic # "none" THEN m
    ELSE
      LET m1 == IF m.input_buffer # <<>> \/ m.output_buffer = <<>>
                THEN p3_duplexing(m) ELSE m
      IN IF m1.panic # "none" THEN m1
         ELSE IF m1.output_buffer = <<>> THEN [m1 EXCEPT !.panic = "expect"]
         ELSE At([m1 EXCEPT
                    !.output_buffer = Tail(@),
                    !.out = Append(@, Head(m1.output_buffer)),
                    !.hist = Sampled(@)], "pop")

\* p3_sample running the duplex on every call.
p3_sample_always(m) ==
    IF m.panic # "none" THEN m
    ELSE
      LET m1 == p3_duplexing(m)
      IN IF m1.panic # "none" THEN m1
         ELSE IF m1.output_buffer = <<>> THEN [m1 EXCEPT !.panic = "expect"]
         ELSE At([m1 EXCEPT
                    !.output_buffer = SubSeq(@, 1, Len(@) - 1),
                    !.out = Append(@, m1.output_buffer[Len(m1.output_buffer)]),
                    !.hist = Sampled(@)], "pop")

p3_sample(m) ==
    IF m.panic # "none" THEN m
    ELSE
      LET m1 == IF m.input_buffer # <<>> \/ m.output_buffer = <<>>
                THEN p3_duplexing(m) ELSE m
      IN IF m1.panic # "none" THEN m1
         ELSE IF m1.output_buffer = <<>> THEN [m1 EXCEPT !.panic = "expect"]
         ELSE At([m1 EXCEPT
                    !.output_buffer = SubSeq(@, 1, Len(@) - 1),
                    !.out = Append(@, m1.output_buffer[Len(m1.output_buffer)]),
                    !.hist = Sampled(@)], "pop")

\* p3_sample_arr calling p3_sample once, whatever SIZE is.
p3_sample_arr_once(m, SIZE) == IF SIZE = 0 THEN m ELSE p3_sample(m)

RECURSIVE p3_sample_arr(_, _)
\* core::array::from_fn: SIZE calls of p3_sample, results in call order.
p3_sample_arr(m, SIZE) ==
    IF SIZE = 0 THEN m ELSE p3_sample_arr(p3_sample(m), SIZE - 1)

p3_sample_ext(m, E) == p3_sample_arr(m, E)

\* Line 147 of p3_sample_bits: the one sample it takes.
p3_sample_bits(m, bits) == p3_sample(m)

\* p3_check_witness sampling before it absorbs the witness.
p3_check_witness_swapped(m, bits, witness) ==
    p3_observe_single(p3_sample_bits(m, bits), witness)

\* Lines 181-182 of p3_check_witness on the transcript.
p3_check_witness(m, bits, witness) ==
    p3_sample_bits(p3_observe_single(m, witness), bits)

(***************************************************************************)
(* Inputs of the operations.                                               *)
(***************************************************************************)
\* Values the sampled wire may take at proving time: canonical field
\* elements with both limbs in play.
SampleValues ==
    { Zero64, One64, Epsilon64, OrderMinusOne64,
      [i \in 1..NUM_BITS |-> i % 2],
      [i \in 1..NUM_BITS |-> IF i = LIMB_BITS + 1 THEN 0 ELSE 1] }

\* bits of sample_bits / check_witness: below the width of usize.
BitsRange == 0..(NUM_BITS - 1)

\* The bits and sampled values the transcript specification draws.
FewBits == {LIMB_BITS + 1}
FewValues == {OrderMinusOne64}

SeqsUpTo(S, n) == UNION {[1..k -> S] : k \in 0..n}

\* The sequences handed to observe: the empty one, every single wire, and
\* the longer ones that alternate between the caller's wires.
ObserveSeqs ==
    SeqsUpTo(Inputs, 1)
        \cup {[i \in 1..k |-> (i % 2) + 1] : k \in 2..MaxObserve}

\* The SIZEs of sample_arr: none, two, a full state and one more.
ArrSizes == {0, 2, WIDTH, MaxArr}

(***************************************************************************)
(* State.                                                                  *)
(***************************************************************************)
\* The machine the next operation starts on; its first step is its entry.
M == At([sponge_state |-> sponge_state, input_buffer |-> input_buffer,
         output_buffer |-> output_buffer, nperm |-> nperm, perm_in |-> perm_in,
         panic |-> panic, steps |-> <<>>, out |-> <<>>, hist |-> hist,
         seen |-> seen], "entry")

\* DuplexChallengerTarget::from_builder, on a builder with no permutation.
Fresh == [sponge_state |-> p3_arr, input_buffer |-> <<>>,
          output_buffer |-> <<>>, nperm |-> 0, perm_in |-> <<>>,
          panic |-> "none", steps |-> <<>>, out |-> <<>>,
          hist |-> [obs |-> 0, samp |-> 0, mixed |-> FALSE], seen |-> {}]

\* self.connect(res, zero): the constraint holds when res takes the value 0.
connect_zero(val) == val = Zero64

\* sample_bits of the reference transcript on the value rand_f takes:
\* rand_f AND ((1 << bits) - 1) on the 64-bit integer, its low bits bits.
sample_bits_reference(rand_f, bits) ==
    [i \in 1..NUM_BITS |-> IF i <= bits THEN rand_f[i] ELSE 0]

\* The record of a call: its name and arguments (args the wires, n the SIZE,
\* E or bits), the wires its samples returned, the permutations it ran, and
\* for sample_bits and check_witness the value rv of the sampled wire, the
\* value val of the result wire and whether the emitted constraints hold.
Call(op, args, n, m, rv, val, sat) ==
    [op |-> op, args |-> args, n |-> n, ret |-> m.out,
     perms |-> m.nperm - nperm, rv |-> rv, val |-> val, sat |-> sat]

NoCall == [op |-> "none", args |-> <<>>, n |-> 0, ret |-> <<>>,
           perms |-> 0, rv |-> Zero64, val |-> Zero64, sat |-> TRUE]

\* What a state keeps of the call before the last one: its name, the
\* permutations it ran, and the inputs buffered and outputs pending at its
\* entry.
Prev(c, st) ==
    [op |-> c.op, perms |-> c.perms,
     buffered |-> IF st = <<>> THEN 0 ELSE Len(st[1].input_buffer),
     pending |-> IF st = <<>> THEN 0 ELSE Len(st[1].output_buffer)]

\* The machine the second transcript starts the next operation on.
Twin == At([twin EXCEPT !.steps = <<>>, !.out = <<>>], "entry")

\* The call of record c, by its name and arguments, on machine m.
Replay(m, c) ==
    CASE c.op = "observe_single" -> p3_observe_single(m, c.args[1])
      [] c.op = "observe" -> p3_observe(m, c.args)
      [] c.op = "sample" -> p3_sample(m)
      [] c.op = "sample_arr" -> p3_sample_arr(m, c.n)
      [] c.op = "sample_ext" -> p3_sample_ext(m, c.n)
      [] c.op = "sample_bits" -> p3_sample_bits(m, c.n)
      [] c.op = "check_witness" -> p3_check_witness(m, c.n, c.args[1])

\* The state is that of machine m, with c the record of the last call.
StateIs(m, c) ==
    /\ sponge_state = m.sponge_state
    /\ input_buffer = m.input_buffer
    /\ output_buffer = m.output_buffer
    /\ nperm = m.nperm
    /\ perm_in = m.perm_in
    /\ panic = m.panic
    /\ steps = m.steps
    /\ call = c
    /\ prev = Prev(NoCall, <<>>)
    /\ hist = m.hist
    /\ seen = m.seen
    /\ twin = [m EXCEPT !.out = c.ret]

Init == StateIs(Fresh, NoCall)

\* An operation takes the machine to m; c is the record of the call.
Run(m, c) ==
    /\ panic = "none"
    /\ m.nperm <= MaxPerm
    /\ sponge_state' = m.sponge_state
    /\ input_buffer' = m.input_buffer
    /\ output_buffer' = m.output_buffer
    /\ nperm' = m.nperm
    /\ perm_in' = m.perm_in
    /\ panic' = m.panic
    /\ steps' = m.steps
    /\ call' = c
    /\ prev' = Prev(call, steps)
    /\ hist' = m.hist
    /\ seen' = m.seen
    /\ twin' = Replay(Twin, c)

ObserveSingleOf(v) ==
    LET m == p3_observe_single(M, InWire(v))
    IN Run(m, Call("observe_single", <<InWire(v)>>, 0, m, Zero64, Zero64, TRUE))

ObserveOf(vs) ==
    LET values == [i \in 1..Len(vs) |-> InWire(vs[i])]
        m == p3_observe(M, values)
    IN Run(m, Call("observe", values, 0, m, Zero64, Zero64, TRUE))

SampleArrOf(SIZE) ==
    LET m == p3_sample_arr(M, SIZE)
    IN Run(m, Call("sample_arr", <<>>, SIZE, m, Zero64, Zero64, TRUE))

SampleExtOf(E) ==
    LET m == p3_sample_ext(M, E)
    IN Run(m, Call("sample_ext", <<>>, E, m, Zero64, Zero64, TRUE))

SampleBitsOf(bits, rv) ==
    LET m == p3_sample_bits(M, bits)
        val == sample_bits_value(rv, bits)
    IN Run(m, Call("sample_bits", <<>>, bits, m, rv, val, TRUE))

CheckWitnessOf(bits, w, rv) ==
    LET m == p3_check_witness(M, bits, InWire(w))
        val == sample_bits_value(rv, bits)
    IN Run(m, Call("check_witness", <<InWire(w)>>, bits, m, rv, val,
                   connect_zero(val)))

ObserveSingle == \E v \in Inputs : ObserveSingleOf(v)

Observe == \E vs \in ObserveSeqs : ObserveOf(vs)

\* sample returning any wire of the state, not the one it pops.
SampleAnyWire ==
    \E i \in 1..WIDTH :
        LET popped == p3_sample(M)
            m == [popped EXCEPT !.out = <<popped.sponge_state[i]>>]
        IN Run(m, Call("sample", <<>>, 0, m, Zero64, Zero64, TRUE))

Sample ==
    LET m == p3_sample(M)
    IN Run(m, Call("sample", <<>>, 0, m, Zero64, Zero64, TRUE))

SampleArr == \E SIZE \in ArrSizes : SampleArrOf(SIZE)

SampleExt == \E E \in ExtDegrees : SampleExtOf(E)

SampleBits == \E bits \in FewBits, rv \in FewValues : SampleBitsOf(bits, rv)

CheckWitness ==
    \E bits \in FewBits, w \in Inputs, rv \in FewValues :
        CheckWitnessOf(bits, w, rv)

Next ==
    \/ ObserveSingle
    \/ Observe
    \/ Sample
    \/ SampleArr
    \/ SampleExt
    \/ SampleBits
    \/ CheckWitness

\* Any sequence of public operations on a transcript from from_builder.
Spec == Init /\ [][Next]_vars

(***************************************************************************)
(* The bounded-bit derivation on its whole domain: one sample_bits or      *)
(* check_witness call, with every bits below 64 and every sample value,    *)
(* on a transcript that has observed up to two values and then sampled.    *)
(***************************************************************************)
PriorStates ==
    { p3_sample_arr(p3_observe(Fresh, [i \in 1..Len(vs) |-> InWire(vs[i])]), j) :
        vs \in SeqsUpTo(Inputs, 2), j \in 0..WIDTH }

InitBits == \E m \in PriorStates : StateIs([m EXCEPT !.steps = <<>>], NoCall)

BitsSampleBits ==
    /\ call = NoCall
    /\ \E bits \in BitsRange, rv \in SampleValues : SampleBitsOf(bits, rv)

BitsCheckWitness ==
    /\ call = NoCall
    /\ \E bits \in BitsRange, w \in Inputs, rv \in SampleValues :
           CheckWitnessOf(bits, w, rv)

NextBits ==
    \/ BitsSampleBits
    \/ BitsCheckWitness

SpecBits == InitBits /\ [][NextBits]_vars

(***************************************************************************)
(* Properties.                                                             *)
(***************************************************************************)
\* The steps of the last call taken at the given point.
StepsAt(at) == {i \in DOMAIN steps : steps[i].at = at}

\* C1: whenever sample returns, input_buffer is empty and the wire returned
\* is computed from every caller wire observed before the call.
C1_SampleIncorporatesAll ==
    call.op = "sample" =>
        /\ input_buffer = <<>>
        /\ Len(call.ret) = 1
        /\ seen \subseteq call.ret[1].deps

\* C2: right after every duplex, input_buffer is empty, output_buffer has
\* WIDTH elements, and output_buffer is the permuted sponge_state, element
\* by element.
C2_AfterDuplex ==
    \A i \in StepsAt("duplex_ret") :
        /\ steps[i].input_buffer = <<>>
        /\ Len(steps[i].output_buffer) = WIDTH
        /\ \A j \in 1..WIDTH :
              /\ steps[i].output_buffer[j] = steps[i].sponge_state[j]
              /\ steps[i].sponge_state[j].kind = "perm"
              /\ steps[i].sponge_state[j].idx = j

\* A duplex run by sample on pending inputs, followed by the pop.
C2_Witness ==
    /\ call.op = "sample"
    /\ steps[1].input_buffer # <<>>
    /\ StepsAt("duplex_ret") # {}
    /\ Len(output_buffer) = WIDTH - 1

\* C3: in every state, those inside an operation included, input_buffer
\* holds at most WIDTH wires and sponge_state exactly WIDTH.
C3_Lengths ==
    /\ Len(input_buffer) <= WIDTH
    /\ Len(sponge_state) = WIDTH
    /\ \A i \in DOMAIN steps :
          /\ Len(steps[i].input_buffer) <= WIDTH
          /\ Len(steps[i].sponge_state) = WIDTH

\* Inside observe_single the buffer is full before the duplex drains it.
C3_Witness ==
    /\ call.op = "observe_single"
    /\ \E i \in StepsAt("push") : Len(steps[i].input_buffer) = WIDTH
    /\ input_buffer = <<>>

\* The last call is a sample that follows an observe_single made after at
\* least one completed duplex.
SampleAfterObserveSingle ==
    /\ call.op = "sample"
    /\ prev.op = "observe_single"
    /\ nperm - call.perms - prev.perms >= 1

\* The wire w is an output of the latest permutation.
FromLatestDuplex(w) == w.kind = "perm" /\ w.gen = nperm

\* C4 as stated: after at least one duplex, observe_single and then sample
\* make the sample run exactly one fresh duplex, and the wire returned comes
\* from it.
C4_SampleRunsFreshDuplex ==
    SampleAfterObserveSingle =>
        /\ call.perms = 1
        /\ Len(call.ret) = 1
        /\ FromLatestDuplex(call.ret[1])

\* C4 amended: observe_single and then sample run exactly one fresh duplex
\* between them, in sample when observe_single leaves fewer than WIDTH wires
\* buffered and in observe_single when it fills the buffer, and the wire
\* returned comes from that duplex, not from the output pending before.
C4_OneFreshDuplex ==
    SampleAfterObserveSingle =>
        /\ prev.buffered + 1 < WIDTH => prev.perms = 0 /\ call.perms = 1
        /\ prev.buffered + 1 = WIDTH => prev.perms = 1 /\ call.perms = 0
        /\ Len(call.ret) = 1
        /\ FromLatestDuplex(call.ret[1])

\* Output was pending when observe_single was called, and sample ran the
\* fresh duplex.
C4_Witness ==
    /\ SampleAfterObserveSingle
    /\ prev.pending > 0
    /\ call.perms = 1

\* The wires of a sequence.
Range(q) == {q[i] : i \in DOMAIN q}

\* C5: observe_single(value) with k wires buffered: if k + 1 < WIDTH the
\* buffer is the old one followed by value, output_buffer is empty and no
\* permutation runs; if k + 1 = WIDTH exactly one duplex runs; either way no
\* wire of the old output_buffer is still in output_buffer.
C5_ObserveSingle ==
    call.op = "observe_single" =>
        LET pre == steps[1]
            k == Len(pre.input_buffer)
            value == call.args[1]
        IN /\ k + 1 <= WIDTH
           /\ k + 1 < WIDTH =>
                 /\ input_buffer = Append(pre.input_buffer, value)
                 /\ output_buffer = <<>>
                 /\ call.perms = 0
                 /\ sponge_state = pre.sponge_state
           /\ k + 1 = WIDTH =>
                 /\ call.perms = 1
                 /\ perm_in = Append(pre.input_buffer, value)
                 /\ input_buffer = <<>>
                 /\ Cardinality(StepsAt("duplex_ret")) = 1
           /\ Range(pre.output_buffer) \cap Range(output_buffer) = {}

\* observe_single discards pending output and buffers the value.
C5_Witness ==
    /\ call.op = "observe_single"
    /\ steps[1].output_buffer # <<>>
    /\ steps[1].input_buffer = <<>>
    /\ Len(input_buffer) = 1
    /\ output_buffer = <<>>

\* Every wire of the sequence is a caller wire.
AllInputs(q) == \A i \in DOMAIN q : q[i].kind = "in"

\* C6: observing WIDTH values onto an empty input_buffer permutes exactly
\* those values, in order, whatever came before, and the samples that follow
\* return the outputs of that permutation.
C6_FullBatch ==
    /\ (call.op = "observe" /\ steps[1].input_buffer = <<>>
            /\ Len(call.args) = WIDTH) =>
          /\ call.perms = 1
          /\ perm_in = call.args
          /\ output_buffer = permute_mut(call.args, nperm)
    /\ (call.op = "observe_single"
            /\ Len(steps[1].input_buffer) = WIDTH - 1) =>
          /\ call.perms = 1
          /\ perm_in = steps[1].input_buffer \o call.args
          /\ output_buffer = permute_mut(perm_in, nperm)
    /\ (call.ret # <<>> /\ call.perms = 0 /\ Len(perm_in) = WIDTH
            /\ AllInputs(perm_in)) =>
          \A i \in DOMAIN call.ret :
              call.ret[i] =
                  permute_mut(perm_in, nperm)[Len(steps[1].output_buffer) - i + 1]

\* A sample right after observe absorbed a full batch, on a transcript that
\* had permuted before.
C6_Witness ==
    /\ call.op = "sample"
    /\ prev.op = "observe"
    /\ prev.buffered = 0
    /\ prev.perms = 1
    /\ call.perms = 0
    /\ AllInputs(perm_in)
    /\ Range(perm_in) = {InWire(v) : v \in Inputs}
    /\ nperm = 2

\* The calls so far are WIDTH observed values followed by j samples.
FullBatchThenSamples(j) ==
    hist = [obs |-> WIDTH, samp |-> j, mixed |-> FALSE]

\* C7: on a fresh transcript, observing WIDTH values runs one permutation,
\* the j-th of the next WIDTH samples runs none and returns element
\* WIDTH - j of the permuted state, and sample WIDTH + 1 runs one more.
C7_ReverseOrder ==
    /\ FullBatchThenSamples(0) => nperm = 1
    /\ \A j \in 1..WIDTH :
          FullBatchThenSamples(j) =>
              /\ nperm = 1
              /\ \A i \in DOMAIN call.ret :
                    call.ret[i] = sponge_state[WIDTH - (j - Len(call.ret) + i) + 1]
    /\ FullBatchThenSamples(WIDTH + 1) =>
          /\ nperm = 2
          /\ call.ret # <<>> => call.perms = 1

\* WIDTH values observed, WIDTH samples taken one by one, and one more.
C7_Witness ==
    /\ FullBatchThenSamples(WIDTH + 1)
    /\ call.op = "sample"
    /\ prev.op = "sample"
    /\ prev.pending = 1

\* The calls so far are n samples and no observe.
OnlySamples(n) == hist = [obs |-> 0, samp |-> n, mixed |-> FALSE]

\* C8: with no value observed, n samples run ceil(n / WIDTH) permutations:
\* the first sample runs the first, sample WIDTH + 1 the second.
C8_SamplesPerPermutation ==
    \A n \in 0..(WIDTH * MaxPerm) :
        OnlySamples(n) => nperm = (n + WIDTH - 1) \div WIDTH

\* Sample WIDTH + 1 has just run the second permutation.
C8_Witness ==
    /\ OnlySamples(WIDTH + 1)
    /\ call.op = "sample"
    /\ call.perms = 1
    /\ nperm = 2

\* The last call derived a bounded value.
DerivedBits == call.op \in {"sample_bits", "check_witness"}

\* C9: for bits in 0..63 the value of sample_bits(bits) is at most
\* 2^bits - 1, no bit from position bits upwards is set; for bits = 0 it is
\* zero.
C9_BitsRange ==
    DerivedBits =>
        /\ call.n \in BitsRange
        /\ \A i \in (call.n + 1)..NUM_BITS : call.val[i] = 0
        /\ call.n = 0 => call.val = Zero64

\* A mask over both limbs that cuts the top bit of the sample and keeps
\* the rest.
C9_Witness ==
    /\ call.op = "sample_bits"
    /\ call.n = NUM_BITS - 1
    /\ call.rv[NUM_BITS] = 1
    /\ call.val[NUM_BITS - 1] = 1
    /\ call.val[1] = 1

\* The machine at the entry of the last call.
MachineAtEntry ==
    [sponge_state |-> steps[1].sponge_state,
     input_buffer |-> steps[1].input_buffer,
     output_buffer |-> steps[1].output_buffer,
     nperm |-> nperm - call.perms, perm_in |-> <<>>, panic |-> "none",
     steps |-> <<steps[1]>>, out |-> <<>>, hist |-> Fresh.hist, seen |-> {}]

\* C10: check_witness(bits, w) leaves the transcript as observe_single(w)
\* followed by sample_bits(bits) does, going through the same states, and
\* its constraint holds exactly when the reference transcript's
\* sample_bits(bits), on the value sampled after absorbing w, is zero.
C10_CheckWitness ==
    call.op = "check_witness" =>
        LET w == call.args[1]
            m == p3_sample_bits(p3_observe_single(MachineAtEntry, w), call.n)
        IN /\ sponge_state = m.sponge_state
           /\ input_buffer = m.input_buffer
           /\ output_buffer = m.output_buffer
           /\ nperm = m.nperm
           /\ steps = m.steps
           /\ call.ret = m.out
           /\ steps[3].at = "push"
           /\ steps[3].input_buffer = Append(steps[1].input_buffer, w)
           /\ Cardinality(StepsAt("pop")) = 1
           /\ \A i \in StepsAt("pop") : i > 3
           /\ call.sat <=> sample_bits_reference(call.rv, call.n) = Zero64

\* A witness accepted on a sample that is not zero: the bits kept are.
C10_Witness ==
    /\ call.op = "check_witness"
    /\ call.sat
    /\ call.n = LIMB_BITS
    /\ call.rv = OrderMinusOne64
    /\ call.perms = 1
    /\ steps[1].input_buffer # <<>>

RECURSIVE SampleCalls(_, _)
\* n consecutive calls of sample, the first one on machine m.
SampleCalls(m, n) == IF n = 0 THEN m ELSE p3_sample(SampleCalls(m, n - 1))

\* The transcript and the builder are as on machine m.
SameTranscript(m) ==
    /\ sponge_state = m.sponge_state
    /\ input_buffer = m.input_buffer
    /\ output_buffer = m.output_buffer
    /\ nperm = m.nperm
    /\ panic = m.panic

\* C11: sample_arr::<N> returns the wires of N consecutive sample calls in
\* call order and leaves the transcript and the number of permutations as
\* they do; sample_ext::<E> returns the wires of sample_arr::<E>; N = 0
\* changes nothing.
C11_SampleArr ==
    call.op \in {"sample_arr", "sample_ext"} =>
        LET m == SampleCalls(MachineAtEntry, call.n)
        IN /\ SameTranscript(m)
           /\ call.ret = m.out
           /\ Len(call.ret) = call.n
           /\ Cardinality(StepsAt("pop")) = call.n
           /\ call.op = "sample_ext" =>
                 call.ret = p3_sample_arr(MachineAtEntry, call.n).out
           /\ call.n = 0 =>
                 /\ SameTranscript([MachineAtEntry EXCEPT !.nperm = nperm])
                 /\ call.perms = 0
                 /\ Len(steps) = 1

\* sample_arr of more wires than a permutation yields: the last one comes
\* from a second permutation run in the middle of the call.
C11_Witness ==
    /\ call.op = "sample_arr"
    /\ call.n = WIDTH + 1
    /\ Len(steps[1].output_buffer) = WIDTH
    /\ call.perms = 1
    /\ call.ret[1].gen = 1
    /\ call.ret[WIDTH + 1].gen = 2

C13_DuplexAbsorbs ==
    \A i \in StepsAt("drain") :
        /\ i > 1
        /\ i < Len(steps)
        /\ LET before == steps[i - 1]
               k == Len(before.input_buffer)
               absorbed == steps[i].sponge_state
               permuted == steps[i + 1].sponge_state
           IN /\ k <= WIDTH
              /\ \A j \in 1..WIDTH :
                    absorbed[j] = IF j <= k THEN before.input_buffer[j]
                                  ELSE before.sponge_state[j]
              /\ k = 0 => absorbed = before.sponge_state
              /\ steps[i + 1].at = "permute"
              /\ permuted = permute_mut(absorbed, permuted[1].gen)
              /\ (\A j \in StepsAt("drain") : j <= i) => perm_in = absorbed

\* sample absorbs one buffered wire into a state an earlier permutation
\* produced: the other slots keep that permutation's outputs.
C13_Witness ==
    /\ call.op = "sample"
    /\ Len(steps[1].input_buffer) = 1
    /\ call.perms = 1
    /\ perm_in[1] = steps[1].input_buffer[1]
    /\ \A j \in 2..WIDTH : perm_in[j] = PermWire(1, j, perm_in[j].deps)
    /\ nperm = 2

\* C14: only the duplex invokes the permutation or changes sponge_state: the
\* state changes at the steps of a duplex and nowhere else and each
\* permutation of a call is one of a duplex; an observe_single whose push
\* leaves input_buffer shorter than WIDTH runs no permutation and leaves
\* sponge_state as it was; a sample on an empty input_buffer and a non-empty
\* output_buffer runs no permutation, leaves sponge_state and input_buffer
\* as they were and removes the last wire of output_buffer, which it returns.
C14_OnlyDuplexPermutes ==
    /\ call.perms = Cardinality(StepsAt("permute"))
    /\ \A i \in 2..Len(steps) :
          /\ steps[i].sponge_state # steps[i - 1].sponge_state =>
                steps[i].at \in {"drain", "permute"}
          /\ steps[i].at = "permute" => steps[i - 1].at = "drain"
    /\ \A i \in StepsAt("drain") :
          /\ i + 3 <= Len(steps)
          /\ steps[i + 1].at = "permute"
          /\ steps[i + 3].at = "duplex_ret"
    /\ (call.op = "observe_single" /\ Len(steps[1].input_buffer) + 1 < WIDTH) =>
          /\ call.perms = 0
          /\ StepsAt("drain") = {}
          /\ sponge_state = steps[1].sponge_state
    /\ (call.op = "sample" /\ steps[1].input_buffer = <<>>
            /\ steps[1].output_buffer # <<>>) =>
          LET old == steps[1].output_buffer
          IN /\ call.perms = 0
             /\ StepsAt("drain") = {}
             /\ sponge_state = steps[1].sponge_state
             /\ input_buffer = steps[1].input_buffer
             /\ output_buffer = SubSeq(old, 1, Len(old) - 1)
             /\ call.ret = <<old[Len(old)]>>

\* A sample that only pops: the output left by an earlier sample is pending
\* and no input is buffered.
C14_Witness ==
    /\ call.op = "sample"
    /\ prev.op = "sample"
    /\ steps[1].input_buffer = <<>>
    /\ Len(steps[1].output_buffer) = WIDTH - 1
    /\ Len(output_buffer) = WIDTH - 2
    /\ call.perms = 0
    /\ sponge_state = steps[1].sponge_state

\* The 64-bit integer 2^bits - 1: the lowest bits bits set.
LowMask(bits) == [i \in 1..NUM_BITS |-> IF i <= bits THEN 1 ELSE 0]

\* C15: sample_bits(bits), bits in 0..63, acts on the transcript as one
\* sample call does, and on the value r of the wire sampled returns
\* r AND (2^bits - 1), that is r mod 2^bits: its low and high limbs are the
\* ANDs of the low and high limbs of r and of the mask, and recombining them
\* loses no bit.
C15_SampleBitsValue ==
    call.op = "sample_bits" =>
        LET m == p3_sample(MachineAtEntry)
            r == split_low_high(call.rv)
            mask == split_low_high(LowMask(call.n))
            res == split_low_high(call.val)
        IN /\ call.n \in BitsRange
           /\ SameTranscript(m)
           /\ steps = m.steps
           /\ call.ret = m.out
           /\ Len(call.ret) = 1
           /\ call.val = sample_bits_reference(call.rv, call.n)
           /\ \A i \in 1..NUM_BITS :
                 call.val[i] = IF call.rv[i] = 1 /\ LowMask(call.n)[i] = 1
                               THEN 1 ELSE 0
           /\ res.low = and_u32(r.low, mask.low)
           /\ res.high = and_u32(r.high, mask.high)
           /\ call.val = res.low \o res.high

\* A mask over the low limb and part of the high one, on a sample with bits
\* set in both limbs, some kept and some cut.
C15_Witness ==
    /\ call.op = "sample_bits"
    /\ call.n = LIMB_BITS + 8
    /\ call.val[1] = 1
    /\ call.val[LIMB_BITS + 1] = 1
    /\ call.rv[LIMB_BITS + 9] = 1
    /\ call.val[LIMB_BITS + 9] = 0
    /\ call.perms = 1

RECURSIVE ObserveSingleCalls(_, _)
\* Consecutive calls of observe_single, one for each value in sequence
\* order, the first one on machine m.
ObserveSingleCalls(m, values) ==
    IF values = <<>> THEN m
    ELSE LET n == Len(values)
         IN p3_observe_single(ObserveSingleCalls(m, SubSeq(values, 1, n - 1)),
                              values[n])

\* The position of step i among the steps of the last call taken at at.
Ordinal(at, i) == Cardinality({j \in StepsAt(at) : j <= i})

\* C16: observe(values) is observe_single on each value in sequence order:
\* with k wires buffered, observing n values runs floor((k + n) / WIDTH)
\* permutations, the j-th on the j-th WIDTH pending wires in the order
\* observed, and leaves the last (k + n) mod WIDTH in input_buffer in order;
\* observing no value changes nothing, output_buffer included.
C16_Observe ==
    call.op = "observe" =>
        LET pre == steps[1]
            k == Len(pre.input_buffer)
            n == Len(call.args)
            pending == pre.input_buffer \o call.args
            q == (k + n) \div WIDTH
            m == ObserveSingleCalls(MachineAtEntry, call.args)
        IN /\ SameTranscript(m)
           /\ steps = m.steps
           /\ call.perms = q
           /\ Cardinality(StepsAt("drain")) = q
           /\ \A i \in StepsAt("drain") :
                 LET j == Ordinal("drain", i)
                 IN steps[i].sponge_state =
                        SubSeq(pending, (j - 1) * WIDTH + 1, j * WIDTH)
           /\ Cardinality(StepsAt("push")) = n
           /\ \A i \in StepsAt("push") :
                 LET buffered == steps[i].input_buffer
                 IN buffered[Len(buffered)] = call.args[Ordinal("push", i)]
           /\ input_buffer = SubSeq(pending, q * WIDTH + 1, k + n)
           /\ Len(input_buffer) = (k + n) % WIDTH
           /\ n = 0 =>
                 /\ Len(steps) = 1
                 /\ sponge_state = pre.sponge_state
                 /\ input_buffer = pre.input_buffer
                 /\ output_buffer = pre.output_buffer

\* observe of more than WIDTH values on a buffer that holds one: one batch
\* is absorbed and two wires stay buffered, the last two observed.
C16_Witness ==
    /\ call.op = "observe"
    /\ Len(steps[1].input_buffer) = 1
    /\ Len(call.args) = WIDTH + 1
    /\ call.args[1] # call.args[2]
    /\ call.perms = 1
    /\ input_buffer = SubSeq(call.args, WIDTH, WIDTH + 1)

\* C17: no call of a public operation aborts the construction: the
\* assertion of the duplex holds whenever a duplex starts, sample pops from
\* a non-empty output_buffer, and no abort is recorded.
C17_NoAbort ==
    /\ panic = "none"
    /\ \A i \in StepsAt("drain") :
          i > 1 /\ Len(steps[i - 1].input_buffer) <= WIDTH
    /\ \A i \in StepsAt("pop") :
          i > 1 /\ steps[i - 1].output_buffer # <<>>

\* check_witness on a transcript whose output is used up and whose buffer
\* lacks one wire: the duplex starts on a full buffer and the pop finds the
\* output refilled.
C17_Witness ==
    /\ call.op = "check_witness"
    /\ steps[1].output_buffer = <<>>
    /\ Len(steps[1].input_buffer) = WIDTH - 1
    /\ nperm = 2
    /\ panic = "none"
    /\ Len(output_buffer) = WIDTH - 1

\* C18: after every complete call of a public operation at most one of
\* input_buffer and output_buffer is non-empty, and input_buffer holds
\* fewer than WIDTH wires.
C18_NoCoexist ==
    /\ input_buffer = <<>> \/ output_buffer = <<>>
    /\ Len(input_buffer) < WIDTH

\* observe called on pending output leaves pending input only.
C18_Witness ==
    /\ call.op = "observe"
    /\ steps[1].output_buffer # <<>>
    /\ Len(input_buffer) = WIDTH - 1
    /\ output_buffer = <<>>
    /\ nperm >= 1

\* q is the first Len(q) wires of s.
IsPrefix(q, s) == Len(q) <= Len(s) /\ \A i \in DOMAIN q : q[i] = s[i]

\* C19: in every state, those inside an operation included, output_buffer
\* is a prefix of sponge_state and holds at most WIDTH wires; every wire
\* sample returns is in sponge_state when it is popped, an output of the
\* most recent permutation.
C19_OutputPrefix ==
    /\ IsPrefix(output_buffer, sponge_state)
    /\ Len(output_buffer) <= WIDTH
    /\ \A i \in DOMAIN steps :
          /\ IsPrefix(steps[i].output_buffer, steps[i].sponge_state)
          /\ Len(steps[i].output_buffer) <= WIDTH
    /\ Len(call.ret) = Cardinality(StepsAt("pop"))
    /\ \A i \in StepsAt("pop") :
          LET w == call.ret[Ordinal("pop", i)]
              latest == nperm - call.perms
                            + Cardinality({j \in StepsAt("permute") : j < i})
          IN /\ w \in Range(steps[i].sponge_state)
             /\ w = steps[i].sponge_state[Len(steps[i].output_buffer) + 1]
             /\ w.kind = "perm"
             /\ w.gen = latest

\* sample_arr of two wires on buffered input: the duplex refills the
\* output and the two pops leave the first WIDTH - 2 wires of the state.
C19_Witness ==
    /\ call.op = "sample_arr"
    /\ call.n = 2
    /\ steps[1].input_buffer # <<>>
    /\ call.perms = 1
    /\ output_buffer = SubSeq(sponge_state, 1, WIDTH - 2)
    /\ call.ret = <<sponge_state[WIDTH], sponge_state[WIDTH - 1]>>

====
